---- MODULE Spec2Model ----
(***************************************************************************)
(* The game-logic layer of matter-test.js: the shape factory, the spawn    *)
(* scheduler, the collisionStart fusion handler, the afterUpdate velocity  *)
(* clamp, the keydown handler and the requestAnimationFrame update loop.   *)
(*                                                                         *)
(* Matter.js itself (integration, collision detection) is the environment: *)
(* a physics step moves bodies and reports collision pairs                 *)
(* nondeterministically.                                                   *)
(*                                                                         *)
(* Positions, velocities and forces are fixed-point numbers in tenths      *)
(* (Px(60) is 60.0), so that Math.round, the 0.2 speed threshold and the   *)
(* 0.1 nudge force are all representable.                                  *)
(***************************************************************************)
EXTENDS Integers, Sequences, FiniteSets, TLC

VARIABLES
    world,         \* ids of the bodies currently in engine.world
    bodies,        \* id -> body object (kept after removal: references stay valid)
    currentShape,  \* id of the body `currentShape` refers to, or Null
    nextId,        \* id the next created body gets
    played,        \* sounds played during the current physics step, in order
    pc,            \* "idle", or "collide" while a physics step is in its callbacks
    count,         \* number of pairs of event.pairs the handler has processed
    acted,         \* the pairs among them on which the handler acted
    stepBodies     \* bodies that were in the world when the current step began

vars == <<world, bodies, currentShape, nextId, played, pc, count, acted, stepBodies>>

----------------------------------------------------------------------------
(* Bounds of the model *)

\* largest number of settled shapes in the field of an initial state
MaxField == 2
\* largest number of bodies created after the initial state
MaxCreated == 2
\* largest number of pairs in one collisionStart event
MaxBatch == 2

----------------------------------------------------------------------------
(* Constants of the program *)

Px(n) == 10 * n

Null == 0

innerWidth == 500
innerHeight == 400

\* Math.floor(window.innerWidth * 0.92)
canvasWidth == (innerWidth * 92) \div 100
canvasHeight == (innerHeight * 92) \div 100

SHAPE_TYPES == <<"circle", "roundedRect", "roundedTriangle">>

SIZE_LEVELS == <<"XS", "S", "M", "L">>

\* maxVelocity.x
maxVelocityX == Px(20)

\* forceMagnitude = 0.2
forceMagnitude == 2

Floor == 1
LeftWall == 2
RightWall == 3

NoShapeData == [has |-> FALSE, type |-> "", sizeIndex |-> 0]

Undefined == [has |-> FALSE, v |-> 0]

StaticBody(x, y) ==
    [isStatic |-> TRUE, isSensor |-> FALSE, shapeData |-> NoShapeData,
     position |-> [x |-> x, y |-> y], velocity |-> [x |-> 0, y |-> 0],
     force |-> [x |-> 0, y |-> 0], prevPositionY |-> Undefined]

StaticBodies ==
    (Floor :> StaticBody(Px(canvasWidth) \div 2, Px(canvasHeight + 50)))
    @@ (LeftWall :> StaticBody(-Px(50) \div 2, Px(canvasHeight) \div 2))
    @@ (RightWall :> StaticBody(Px(canvasWidth) + Px(50) \div 2, Px(canvasHeight) \div 2))

----------------------------------------------------------------------------
(* The game state the callbacks read and write, as one record *)

State ==
    [world |-> world, bodies |-> bodies, currentShape |-> currentShape,
     nextId |-> nextId, played |-> played]

\* Composite.remove(world, body): no effect when the body is not in the world
CompositeRemove(s, b) == [s EXCEPT !.world = @ \ {b}]

\* Body.applyForce(body, body.position, force): adds to the accumulated force
ApplyForce(body, fx, fy) ==
    [body EXCEPT !.force = [x |-> @.x + fx, y |-> @.y + fy]]

\* createShapeAtPosition(type, sizeIndex, x, y)
createShapeAtPosition(s, type, sizeIndex, x, y) ==
    LET body == ApplyForce(
                    [isStatic |-> FALSE, isSensor |-> FALSE,
                     shapeData |-> [has |-> TRUE, type |-> type, sizeIndex |-> sizeIndex],
                     position |-> [x |-> x, y |-> y],
                     velocity |-> [x |-> 0, y |-> 0],
                     force |-> [x |-> 0, y |-> 0],
                     prevPositionY |-> Undefined],
                    0, 1)
    IN  [s EXCEPT !.bodies = @ @@ (s.nextId :> body),
                  !.world = @ \cup {s.nextId},
                  !.currentShape = s.nextId,
                  !.nextId = @ + 1]

\* what the two calls of Math.random() in one spawnShape() can return, in
\* hundredths (Math.random() is at least 0 and less than 1)
Randoms == {<<0, 0>>, <<34, 99>>, <<99, 50>>}

\* Math.floor(r * n), r in hundredths
FloorTimes(r, n) == (r * n) \div 100

\* spawnShape with the side margin left out of the width
spawnShapeNoMargin(s, r) ==
    LET type == SHAPE_TYPES[FloorTimes(r[1], Len(SHAPE_TYPES)) + 1]
    IN  createShapeAtPosition(s, type, 0,
            (r[2] * Px(canvasWidth)) \div 100 + Px(30), -Px(60))

\* Math.random() returned r[1], then r[2]
spawnShape(s, r) ==
    LET type == SHAPE_TYPES[FloorTimes(r[1], Len(SHAPE_TYPES)) + 1]
    IN  createShapeAtPosition(s, type, 0,
            (r[2] * Px(canvasWidth - 60)) \div 100 + Px(30), -Px(60))

----------------------------------------------------------------------------
(* The collisionStart handler *)

playFuseSound(s) == [s EXCEPT !.played = Append(@, "fuse")]

playMaxSizeSound(s) == [s EXCEPT !.played = Append(@, "maxSize")]

\* the loop body creating the successor at bodyB's position
collisionPairAtB(s, bodyA, bodyB) ==
    LET dataA == s.bodies[bodyA].shapeData
        dataB == s.bodies[bodyB].shapeData
    IN  IF dataA.has /\ dataB.has
        THEN IF dataA.type = dataB.type /\ dataA.sizeIndex = dataB.sizeIndex
             THEN IF dataA.sizeIndex < Len(SIZE_LEVELS) - 1
                  THEN createShapeAtPosition(
                           CompositeRemove(CompositeRemove(playFuseSound(s), bodyA), bodyB),
                           dataA.type, dataA.sizeIndex + 1,
                           s.bodies[bodyB].position.x, s.bodies[bodyB].position.y)
                  ELSE CompositeRemove(CompositeRemove(playMaxSizeSound(s), bodyA), bodyB)
             ELSE s
        ELSE s

\* the loop body with the size test off by one: the largest size fuses too
collisionPairNoMax(s, bodyA, bodyB) ==
    LET dataA == s.bodies[bodyA].shapeData
        dataB == s.bodies[bodyB].shapeData
    IN  IF dataA.has /\ dataB.has
        THEN IF dataA.type = dataB.type /\ dataA.sizeIndex = dataB.sizeIndex
             THEN IF dataA.sizeIndex < Len(SIZE_LEVELS)
                  THEN createShapeAtPosition(
                           CompositeRemove(CompositeRemove(playFuseSound(s), bodyA), bodyB),
                           dataA.type, dataA.sizeIndex + 1,
                           s.bodies[bodyA].position.x, s.bodies[bodyA].position.y)
                  ELSE CompositeRemove(CompositeRemove(playMaxSizeSound(s), bodyA), bodyB)
             ELSE s
        ELSE s

\* the loop body comparing the sizes only, not the shapes
collisionPairAnyKind(s, bodyA, bodyB) ==
    LET dataA == s.bodies[bodyA].shapeData
        dataB == s.bodies[bodyB].shapeData
    IN  IF dataA.has /\ dataB.has
        THEN IF dataA.sizeIndex = dataB.sizeIndex
             THEN IF dataA.sizeIndex < Len(SIZE_LEVELS) - 1
                  THEN createShapeAtPosition(
                           CompositeRemove(CompositeRemove(playFuseSound(s), bodyA), bodyB),
                           dataA.type, dataA.sizeIndex + 1,
                           s.bodies[bodyA].position.x, s.bodies[bodyA].position.y)
                  ELSE CompositeRemove(CompositeRemove(playMaxSizeSound(s), bodyA), bodyB)
             ELSE s
        ELSE s

\* the loop body skipping a pair whose bodyA is no longer in the world
collisionPairGuardA(s, bodyA, bodyB) ==
    LET dataA == s.bodies[bodyA].shapeData
        dataB == s.bodies[bodyB].shapeData
    IN  IF dataA.has /\ dataB.has /\ bodyA \in s.world
        THEN IF dataA.type = dataB.type /\ dataA.sizeIndex = dataB.sizeIndex
             THEN IF dataA.sizeIndex < Len(SIZE_LEVELS) - 1
                  THEN createShapeAtPosition(
                           CompositeRemove(CompositeRemove(playFuseSound(s), bodyA), bodyB),
                           dataA.type, dataA.sizeIndex + 1,
                           s.bodies[bodyA].position.x, s.bodies[bodyA].position.y)
                  ELSE CompositeRemove(CompositeRemove(playMaxSizeSound(s), bodyA), bodyB)
             ELSE s
        ELSE s

\* the loop body giving control back to the shape that had it
collisionPairKeepCurrent(s, bodyA, bodyB) ==
    LET dataA == s.bodies[bodyA].shapeData
        dataB == s.bodies[bodyB].shapeData
    IN  IF dataA.has /\ dataB.has
        THEN IF dataA.type = dataB.type /\ dataA.sizeIndex = dataB.sizeIndex
             THEN IF dataA.sizeIndex < Len(SIZE_LEVELS) - 1
                  THEN [createShapeAtPosition(
                           CompositeRemove(CompositeRemove(playFuseSound(s), bodyA), bodyB),
                           dataA.type, dataA.sizeIndex + 1,
                           s.bodies[bodyA].position.x, s.bodies[bodyA].position.y)
                        EXCEPT !.currentShape = s.currentShape]
                  ELSE CompositeRemove(CompositeRemove(playMaxSizeSound(s), bodyA), bodyB)
             ELSE s
        ELSE s

\* the body of the handler's loop, for the pair (bodyA, bodyB)
collisionPair(s, bodyA, bodyB) ==
    LET dataA == s.bodies[bodyA].shapeData
        dataB == s.bodies[bodyB].shapeData
    IN  IF dataA.has /\ dataB.has
        THEN IF dataA.type = dataB.type /\ dataA.sizeIndex = dataB.sizeIndex
             THEN IF dataA.sizeIndex < Len(SIZE_LEVELS) - 1
                  THEN createShapeAtPosition(
                           CompositeRemove(CompositeRemove(playFuseSound(s), bodyA), bodyB),
                           dataA.type, dataA.sizeIndex + 1,
                           s.bodies[bodyA].position.x, s.bodies[bodyA].position.y)
                  ELSE CompositeRemove(CompositeRemove(playMaxSizeSound(s), bodyA), bodyB)
             ELSE s
        ELSE s

\* does the handler create a body for this pair
Fuses(s, bodyA, bodyB) == collisionPair(s, bodyA, bodyB).nextId # s.nextId

\* the handler: event.pairs.forEach, pairs a sequence of <<bodyA, bodyB>>
RECURSIVE collisionStart(_, _)
collisionStart(s, pairs) ==
    IF pairs = <<>> THEN s
    ELSE collisionStart(collisionPair(s, Head(pairs)[1], Head(pairs)[2]), Tail(pairs))

----------------------------------------------------------------------------
(* The afterUpdate handler *)

\* the clamp without its lower bound
clampVelocityUpperOnly(body) ==
    IF body.isStatic \/ body.isSensor
    THEN body
    ELSE LET vx == body.velocity.x
             vy == body.velocity.y
             cx == IF vx > maxVelocityX THEN maxVelocityX ELSE vx
         IN  [body EXCEPT !.velocity = [x |-> cx, y |-> vy]]

clampVelocity(body) ==
    IF body.isStatic \/ body.isSensor
    THEN body
    ELSE LET vx == body.velocity.x
             vy == body.velocity.y
             cx == IF vx > maxVelocityX THEN maxVelocityX
                   ELSE IF vx < -maxVelocityX THEN -maxVelocityX
                   ELSE vx
         IN  [body EXCEPT !.velocity = [x |-> cx, y |-> vy]]

\* allBodies.forEach over Composite.allBodies(engine.world)
afterUpdate(s) ==
    [s EXCEPT !.bodies = [b \in DOMAIN @ |-> IF b \in s.world THEN clampVelocity(@[b]) ELSE @[b]]]

----------------------------------------------------------------------------
(* The keydown handler *)

Keys == {"ArrowLeft", "ArrowRight", "ArrowUp"}

\* the handler with the sign of the ArrowLeft force lost
keydownMirrored(s, key) ==
    IF s.currentShape = Null
    THEN s
    ELSE IF key = "ArrowLeft"
         THEN [s EXCEPT !.bodies[s.currentShape] = ApplyForce(@, forceMagnitude, 0)]
         ELSE IF key = "ArrowRight"
              THEN [s EXCEPT !.bodies[s.currentShape] = ApplyForce(@, forceMagnitude, 0)]
              ELSE s

\* the handler pushing every shape of the world instead of the current one
keydownEveryShape(s, key) ==
    IF s.currentShape = Null
    THEN s
    ELSE LET fx == IF key = "ArrowLeft" THEN -forceMagnitude
                   ELSE IF key = "ArrowRight" THEN forceMagnitude ELSE 0
         IN  [s EXCEPT !.bodies = [b \in DOMAIN @ |->
                 IF b \in s.world /\ @[b].shapeData.has /\ fx # 0
                 THEN ApplyForce(@[b], fx, 0) ELSE @[b]]]

keydown(s, key) ==
    IF s.currentShape = Null
    THEN s
    ELSE IF key = "ArrowLeft"
         THEN [s EXCEPT !.bodies[s.currentShape] = ApplyForce(@, -forceMagnitude, 0)]
         ELSE IF key = "ArrowRight"
              THEN [s EXCEPT !.bodies[s.currentShape] = ApplyForce(@, forceMagnitude, 0)]
              ELSE s

----------------------------------------------------------------------------
(* The game loop *)

\* Math.round: the nearest integer, halves towards +infinity
MathRound(y) == (y + 5) \div 10

\* a JavaScript number used as a condition: undefined and 0 are falsy
Truthy(n) == n.has /\ n.v # 0

\* Math.sqrt(vx ** 2 + vy ** 2) < 0.2, compared as squares
SpeedBelowRest(velocity) ==
    velocity.x * velocity.x + velocity.y * velocity.y < 2 * 2

\* the off-screen test with >= for >
OffScreenInclusive(body) == body.position.y >= Px(canvasHeight + 50)

OffScreen(body) == body.position.y > Px(canvasHeight + 50)

AtRest(body) ==
    /\ SpeedBelowRest(body.velocity)
    /\ Truthy(body.prevPositionY)
    /\ MathRound(body.position.y) = MathRound(body.prevPositionY.v)

\* currentShape.prevPositionY = currentShape.position.y
storeSample(s) ==
    [s EXCEPT !.bodies[s.currentShape].prevPositionY =
                  [has |-> TRUE, v |-> s.bodies[s.currentShape].position.y]]

\* one call of update(); r is what Math.random() returns if spawnShape runs
update(s, r) ==
    IF s.currentShape # Null
    THEN LET cur == s.bodies[s.currentShape]
         IN  IF OffScreen(cur)
             THEN storeSample(spawnShape(
                      [CompositeRemove(s, s.currentShape) EXCEPT !.currentShape = Null],
                      r))
             ELSE IF AtRest(cur)
                  THEN storeSample(spawnShape([s EXCEPT !.currentShape = Null], r))
                  ELSE storeSample(s)
    ELSE s

\* does this call of update() create a body
Spawns(s) ==
    /\ s.currentShape # Null
    /\ OffScreen(s.bodies[s.currentShape]) \/ AtRest(s.bodies[s.currentShape])

----------------------------------------------------------------------------
(* The environment: what Engine.update does to the bodies *)

Sample(x, y, vx, vy) == [position |-> [x |-> x, y |-> y], velocity |-> [x |-> vx, y |-> vy]]

\* where the integration of one step can leave the body created last
EngineSamples ==
    { Sample(Px(100), Px(300), 0, 0),                         \* at rest on the floor
      Sample(Px(100), Px(300) + 4, 1, 1),                     \* creeping: 300.4, speed < 0.2
      Sample(Px(200), Px(300) + 5, 2, 0),                     \* 300.5, speed = 0.2
      Sample(Px(200), 0, 0, 0),                               \* at rest at y = 0
      Sample(Px(200), Px(canvasHeight + 50), Px(25), Px(3)),  \* on the lower boundary, fast
      Sample(Px(100), Px(canvasHeight + 50) + 1, -Px(25), Px(3)) }  \* past the lower boundary

\* where it can leave an older body: lying on the floor, or knocked over the edge
SettledSamples ==
    { Sample(Px(100), Px(300), 0, 0),
      Sample(Px(100), Px(canvasHeight + 50) + 1, -Px(25), Px(3)) }

Dynamic(s) == {b \in s.world : ~s.bodies[b].isStatic}

Newest(s) == {b \in Dynamic(s) : \A c \in Dynamic(s) : c <= b}

\* fine: the newest body is followed closely; otherwise every body is seen coarsely
SamplesFor(s, b, fine) == IF fine /\ b \in Newest(s) THEN EngineSamples ELSE SettledSamples

\* Body.update of the bodies the step moves
Integrate(s, b, smp) ==
    [s EXCEPT !.bodies[b] = [@ EXCEPT !.position = smp.position, !.velocity = smp.velocity]]

\* Engine._bodiesClearForces(allBodies), allBodies taken when the step began
ClearForces(s, allBodies) ==
    [s EXCEPT !.bodies = [b \in DOMAIN @ |->
        IF b \in allBodies THEN [@[b] EXCEPT !.force = [x |-> 0, y |-> 0]] ELSE @[b]]]

\* the pairs a collisionStart event can report next: two different bodies of the
\* step, not both static, no pair twice.  The handler's branch depends on the
\* pair's metadata alone, which never changes, so a pair it did not act on can
\* be told from no other such pair and only the others are remembered.
CanCollide(a, b) ==
    /\ a \in stepBodies /\ b \in stepBodies /\ a # b
    /\ ~(bodies[a].isStatic /\ bodies[b].isStatic)
    /\ {a, b} \notin acted

\* what the program can still read when a callback has returned: the bodies of
\* the world and the current shape, and prevPositionY of the current shape only
\* (currentShape is only ever set to a new body)
Collect(s) ==
    [s EXCEPT !.bodies = [b \in (s.world \cup {s.currentShape}) \cap DOMAIN @ |->
        IF b = s.currentShape THEN @[b] ELSE [@[b] EXCEPT !.prevPositionY = Undefined]]]

----------------------------------------------------------------------------
(* Initial states: load() on an empty field, or a field of settled shapes of
   which the last created one is still the current shape *)

Set(s) ==
    /\ world = s.world
    /\ bodies = s.bodies
    /\ currentShape = s.currentShape
    /\ nextId = s.nextId
    /\ played = s.played

SetNext(s) ==
    /\ world' = s.world
    /\ bodies' = s.bodies
    /\ currentShape' = s.currentShape
    /\ nextId' = s.nextId
    /\ played' = s.played

\* the id the first body created after the initial state gets
FirstId == RightWall + MaxField + 1

Empty(k) ==
    [world |-> {Floor, LeftWall, RightWall}, bodies |-> StaticBodies,
     currentShape |-> Null, nextId |-> FirstId - k, played |-> <<>>]

FieldKinds == {SHAPE_TYPES[1]}

\* a shape lying on the floor whose sample of the previous tick is its position
Settled(s, type, sizeIndex) ==
    LET made == createShapeAtPosition(s, type, sizeIndex, Px(100), Px(300))
    IN  ClearForces(storeSample(made), {made.currentShape})

RECURSIVE Field(_, _)
Field(s, shapes) ==
    IF shapes = <<>> THEN s
    ELSE Field(Settled(s, Head(shapes)[1], Head(shapes)[2]), Tail(shapes))

Fields ==
    UNION { [1..k -> FieldKinds \X (0..(Len(SIZE_LEVELS) - 1))] : k \in 1..MaxField }

Init ==
    /\ pc = "idle"
    /\ count = 0
    /\ acted = {}
    /\ stepBodies = {}
    /\ \/ \E r \in Randoms : Set(spawnShape(Empty(1), r))
       \/ \E shapes \in Fields : Set(Collect(Field(Empty(Len(shapes)), shapes)))

----------------------------------------------------------------------------
(* Actions *)

CanCreate == nextId < FirstId + MaxCreated

\* Engine.update begins: the bodies move, then the callbacks run
StepBegin(fine) ==
    /\ pc = "idle"
    /\ pc' = "collide"
    /\ count' = 0
    /\ acted' = {}
    /\ stepBodies' = world
    /\ \/ SetNext(State)
       \/ \E b \in Dynamic(State) : \E smp \in SamplesFor(State, b, fine) :
             SetNext(Integrate(State, b, smp))

\* the collisionStart handler's loop takes the next pair of event.pairs
CollisionStart ==
    /\ pc = "collide"
    /\ count < MaxBatch
    /\ \E a \in stepBodies, b \in stepBodies :
          /\ CanCollide(a, b)
          /\ Fuses(State, a, b) => CanCreate
          /\ SetNext(collisionPair(State, a, b))
          /\ acted' = IF collisionPair(State, a, b) = State THEN acted ELSE acted \cup {{a, b}}
    /\ count' = count + 1
    /\ UNCHANGED <<pc, stepBodies>>

\* Engine.update ends: forces are cleared, then the afterUpdate handler runs
AfterUpdate ==
    /\ pc = "collide"
    /\ pc' = "idle"
    /\ SetNext(Collect([afterUpdate(ClearForces(State, stepBodies)) EXCEPT !.played = <<>>]))
    /\ count' = 0
    /\ acted' = {}
    /\ stepBodies' = {}

\* requestAnimationFrame calls update()
Update ==
    /\ pc = "idle"
    /\ Spawns(State) => CanCreate
    /\ \E r \in Randoms : SetNext(Collect(update(State, r)))
    /\ UNCHANGED <<pc, count, acted, stepBodies>>

\* a keydown event; at most one press is pending between two physics steps
KeyDown ==
    /\ pc = "idle"
    /\ currentShape # Null => bodies[currentShape].force = [x |-> 0, y |-> 0]
    /\ \E key \in Keys : SetNext(keydown(State, key))
    /\ UNCHANGED <<pc, count, acted, stepBodies>>

Next == StepBegin(FALSE) \/ CollisionStart \/ AfterUpdate \/ Update \/ KeyDown

Spec == Init /\ [][Next]_vars

\* the same program from load(), the falling shape followed closely
LoopInit ==
    /\ pc = "idle"
    /\ count = 0
    /\ acted = {}
    /\ stepBodies = {}
    /\ \E r \in Randoms : Set(spawnShape(Empty(1), r))

LoopNext == StepBegin(TRUE) \/ CollisionStart \/ AfterUpdate \/ Update \/ KeyDown

LoopSpec == LoopInit /\ [][LoopNext]_vars

----------------------------------------------------------------------------
(* Properties *)

\* the shape instances in the field
Live(s) == {b \in s.world : s.bodies[b].shapeData.has}

Data(b) == bodies[b].shapeData

SameShapeAndSize(a, b) ==
    /\ Data(a).has /\ Data(b).has
    /\ Data(a).type = Data(b).type
    /\ Data(a).sizeIndex = Data(b).sizeIndex

\* the bodies the current step's handler has removed from the world
Destroyed == stepBodies \ world

\* C1: while the handler works through one event, a pair of which either body
\* was already removed earlier in this event is skipped: processing it changes
\* nothing (nothing removed, nothing created, no sound).
C1_StalePairSkipped ==
    pc = "collide" =>
        \A a \in stepBodies, b \in stepBodies :
            (CanCollide(a, b) /\ {a, b} \cap Destroyed # {})
                => collisionPair(State, a, b) = State

\* C2: processing a pair of two live bodies of the same shape and the same size
\* below the largest removes both from the world, creates exactly one body of
\* that shape and the next size at bodyA's position, plays the fuse sound once,
\* and leaves one live shape fewer.
C2_Fusion ==
    pc = "collide" =>
        \A a \in stepBodies, b \in stepBodies :
            (a # b /\ a \in world /\ b \in world /\ SameShapeAndSize(a, b)
                   /\ Data(a).sizeIndex < Len(SIZE_LEVELS) - 1)
                => LET s2 == collisionPair(State, a, b)
                       new == nextId
                   IN  /\ new \notin DOMAIN bodies
                       /\ DOMAIN s2.bodies = DOMAIN bodies \cup {new}
                       /\ s2.world = (world \ {a, b}) \cup {new}
                       /\ s2.bodies[new].shapeData =
                              [has |-> TRUE, type |-> Data(a).type,
                               sizeIndex |-> Data(a).sizeIndex + 1]
                       /\ s2.bodies[new].position = bodies[a].position
                       /\ s2.played = Append(played, "fuse")
                       /\ Cardinality(Live(s2)) = Cardinality(Live(State)) - 1

\* a fusion has happened in the current step: the two bodies are gone and
\* their successor, one size up, is in the world
C2_Witness ==
    /\ pc = "collide"
    /\ played = <<"fuse">>
    /\ Cardinality(Destroyed) = 2
    /\ \E new \in world \ stepBodies :
          /\ Data(new).sizeIndex > 0
          /\ \E a \in Destroyed : bodies[new].position = bodies[a].position
          /\ \E b \in Destroyed : bodies[new].position # bodies[b].position

\* C3: processing a pair of two live bodies of the same shape, both of the
\* largest size, removes both from the world, creates nothing, plays the
\* max-size sound once and no fuse sound, and leaves two live shapes fewer.
C3_MaxSize ==
    pc = "collide" =>
        \A a \in stepBodies, b \in stepBodies :
            (a # b /\ a \in world /\ b \in world /\ SameShapeAndSize(a, b)
                   /\ Data(a).sizeIndex = Len(SIZE_LEVELS) - 1)
                => LET s2 == collisionPair(State, a, b)
                   IN  /\ DOMAIN s2.bodies = DOMAIN bodies
                       /\ s2.nextId = nextId
                       /\ s2.world = world \ {a, b}
                       /\ s2.played = Append(played, "maxSize")
                       /\ Cardinality(Live(s2)) = Cardinality(Live(State)) - 2

\* a pair of the largest size has been removed in the current step
C3_Witness ==
    /\ pc = "collide"
    /\ played = <<"maxSize">>
    /\ Cardinality(Destroyed) = 2
    /\ world \subseteq stepBodies
    /\ \A b \in Destroyed : Data(b).sizeIndex = Len(SIZE_LEVELS) - 1

\* C4: processing a pair whose bodies differ in shape or in size, or of which
\* one has no shape data (floor, walls), changes nothing: world, bodies,
\* currentShape and the sounds played stay as they are.
C4_NoEffect ==
    pc = "collide" =>
        \A a \in stepBodies, b \in stepBodies :
            (a # b /\ ~SameShapeAndSize(a, b)) => collisionPair(State, a, b) = State

\* the handler has processed pairs and acted on none, in a step whose bodies
\* include shapes of different kind, shapes of different size, and the floor
C4_Witness ==
    /\ pc = "collide"
    /\ count = MaxBatch
    /\ acted = {}
    /\ played = <<>>
    /\ world = stepBodies
    /\ \E a \in Live(State), b \in Live(State) : Data(a).type # Data(b).type
    /\ \E a \in Live(State), b \in Live(State) :
          Data(a).type = Data(b).type /\ Data(a).sizeIndex # Data(b).sizeIndex

C5_TierInRange ==
    \A b \in Live(State) : 0 <= Data(b).sizeIndex /\ Data(b).sizeIndex < Len(SIZE_LEVELS)

C5_DataStable ==
    \A b \in DOMAIN bodies \cap DOMAIN bodies' : bodies'[b].shapeData = bodies[b].shapeData

\* C5: in every reachable state every shape in the world has a size index from
\* 0 up to, not including, the number of size levels, and no step of the
\* program changes the shape data of a body.
C5_Tiers == []C5_TierInRange /\ [][C5_DataStable]_vars

\* a body of the largest size that a fusion created, next to a spawned one
C5_Witness ==
    /\ \E b \in Live(State) : b >= FirstId /\ Data(b).sizeIndex = Len(SIZE_LEVELS) - 1
    /\ \E b \in Live(State) : b >= FirstId /\ Data(b).sizeIndex = 0

\* C6: currentShape changes only in a call of update() that releases it (off
\* screen or at rest): no step of a physics update and no key event changes it.
C6_OnlyTickReleases ==
    [][currentShape' # currentShape => (pc = "idle" /\ pc' = "idle" /\ Spawns(State))]_vars

\* C7: a call of update() on a current shape that is not off screen releases it
\* exactly if its speed is below 0.2, a sample of the previous tick exists, and
\* the rounded y of now and of the sample are equal.
C7_SettleIff ==
    (pc = "idle" /\ currentShape # Null /\ bodies[currentShape].position.y <= Px(canvasHeight + 50))
        => \A r \in Randoms :
              LET cur == bodies[currentShape]
                  s2 == update(State, r)
              IN  (s2.currentShape # currentShape)
                      <=> (/\ cur.velocity.x * cur.velocity.x + cur.velocity.y * cur.velocity.y < 4
                           /\ cur.prevPositionY.has
                           /\ MathRound(cur.position.y) = MathRound(cur.prevPositionY.v))

\* C8: a call of update() on a current shape whose y is greater than
\* canvasHeight + 50 removes it from the world and spawns, so that currentShape
\* is a new body in the world; at canvasHeight + 50 or less the call does not
\* remove it.
C8_Exit ==
    (pc = "idle" /\ currentShape # Null)
        => \A r \in Randoms :
              LET cur == bodies[currentShape]
                  s2 == update(State, r)
              IN  /\ cur.position.y > Px(canvasHeight + 50)
                        => /\ currentShape \notin s2.world
                           /\ s2.currentShape # currentShape
                           /\ s2.currentShape \notin DOMAIN bodies
                           /\ s2.currentShape \in s2.world
                           /\ s2.bodies[s2.currentShape].shapeData.has
                  /\ cur.position.y <= Px(canvasHeight + 50)
                        => (currentShape \in world => currentShape \in s2.world)

\* the first shape fell off the screen and update() replaced it
C8_Witness ==
    /\ pc = "idle"
    /\ currentShape = FirstId
    /\ Data(FirstId).sizeIndex = 0
    /\ Live(State) = {FirstId}

Spawned(s2, new) ==
    /\ new \in s2.world
    /\ s2.currentShape = new
    /\ s2.bodies[new].shapeData.has
    /\ s2.bodies[new].shapeData.sizeIndex = 0
    /\ \E i \in 1..Len(SHAPE_TYPES) : s2.bodies[new].shapeData.type = SHAPE_TYPES[i]
    /\ Px(30) <= s2.bodies[new].position.x
    /\ s2.bodies[new].position.x <= Px(canvasWidth - 30)
    /\ s2.bodies[new].position.y = -Px(60)

\* C9: every call of spawnShape(), from load() and from update(), creates
\* exactly one body, of size index 0, of a shape of SHAPE_TYPES, at
\* 30 <= x <= canvasWidth - 30 and y = -60, and makes it currentShape.
C9_Spawn ==
    /\ \A r \in Randoms :
          LET s2 == spawnShape(Empty(1), r)
          IN  DOMAIN s2.bodies = DOMAIN StaticBodies \cup {FirstId - 1} /\ Spawned(s2, FirstId - 1)
    /\ (pc = "idle" /\ Spawns(State))
          => \A r \in Randoms :
                LET s2 == update(State, r)
                IN  /\ nextId \notin DOMAIN bodies
                    /\ DOMAIN s2.bodies \ DOMAIN bodies = {nextId}
                    /\ s2.world \ world = {nextId}
                    /\ Spawned(s2, nextId)

\* update() has released a shape that lay at rest and spawned the next one at
\* the far end of the range of x
C9_Witness ==
    /\ pc = "idle"
    /\ currentShape = FirstId
    /\ Live(State) = {FirstId - 1, FirstId}
    /\ bodies[FirstId].position = [x |-> (99 * Px(canvasWidth - 60)) \div 100 + Px(30), y |-> -Px(60)]
    /\ bodies[FirstId].prevPositionY = [has |-> TRUE, v |-> -Px(60)]

\* C10: the afterUpdate handler leaves every dynamic body of the world with
\* -20 <= velocity.x <= 20, the same velocity.x if it was within that range and
\* the nearer bound otherwise, and the same velocity.y; it leaves static and
\* sensor bodies as they are.
C10_Clamp ==
    [][(pc = "collide" /\ pc' = "idle")
          => \A b \in world :
                LET old == bodies[b]
                    new == bodies'[b]
                IN  IF old.isStatic \/ old.isSensor
                    THEN new = old
                    ELSE /\ -Px(20) <= new.velocity.x /\ new.velocity.x <= Px(20)
                         /\ old.velocity.x > Px(20) => new.velocity.x = Px(20)
                         /\ old.velocity.x < -Px(20) => new.velocity.x = -Px(20)
                         /\ (-Px(20) <= old.velocity.x /\ old.velocity.x <= Px(20))
                               => new.velocity.x = old.velocity.x
                         /\ new.velocity.y = old.velocity.y]_vars

\* after a step, one body moves at the upper bound and another at the lower
C10_Witness ==
    /\ pc = "idle"
    /\ \E b \in Dynamic(State) : bodies[b].velocity = [x |-> Px(20), y |-> Px(3)]
    /\ \E b \in Dynamic(State) : bodies[b].velocity = [x |-> -Px(20), y |-> Px(3)]

\* the state with force (fx, 0) added to the force of the current shape and
\* nothing else different
Pushed(s, fx) ==
    [s EXCEPT !.bodies[s.currentShape].force = [x |-> @.x + fx, y |-> @.y]]

NoneControlled == [State EXCEPT !.currentShape = Null]

\* C11: between callbacks, a keydown of ArrowLeft adds the force (-0.2, 0) and
\* one of ArrowRight the force (0.2, 0) to the current shape and changes nothing
\* else; any other key changes nothing; with no current shape no key changes
\* anything; no key changes the world, the bodies that exist, their shape data
\* or currentShape.
C11_KeyForce ==
    pc = "idle" =>
        \A key \in Keys :
            LET s2 == keydown(State, key)
            IN  /\ (currentShape # Null /\ key = "ArrowLeft") => s2 = Pushed(State, -forceMagnitude)
                /\ (currentShape # Null /\ key = "ArrowRight") => s2 = Pushed(State, forceMagnitude)
                /\ key \notin {"ArrowLeft", "ArrowRight"} => s2 = State
                /\ keydown(NoneControlled, key) = NoneControlled
                /\ s2.world = world
                /\ s2.currentShape = currentShape
                /\ DOMAIN s2.bodies = DOMAIN bodies
                /\ \A b \in DOMAIN bodies : s2.bodies[b].shapeData = bodies[b].shapeData

\* ArrowLeft has pushed the current shape, and another shape of the field
\* carries no force
C11_Witness ==
    /\ pc = "idle"
    /\ currentShape \in world
    /\ bodies[currentShape].force = [x |-> -forceMagnitude, y |-> 0]
    /\ \E b \in Live(State) \ {currentShape} : bodies[b].force = [x |-> 0, y |-> 0]

\* how many live shapes of each shape and size there are
Census(s) ==
    [k \in {SHAPE_TYPES[i] : i \in 1..Len(SHAPE_TYPES)} \X (0..(Len(SIZE_LEVELS) - 1)) |->
        Cardinality({b \in Live(s) : /\ s.bodies[b].shapeData.type = k[1]
                                     /\ s.bodies[b].shapeData.sizeIndex = k[2]})]

Signals(s, sound) == Cardinality({i \in 1..Len(s.played) : s.played[i] = sound})

Outcome(s) == <<Census(s), Signals(s, "fuse"), Signals(s, "maxSize")>>

\* the pairs an event of the current step can hold
StepPairs ==
    {p \in stepBodies \X stepBodies :
        p[1] # p[2] /\ ~(bodies[p[1]].isStatic /\ bodies[p[2]].isStatic)}

\* an order of the pairs, to take every two pairs once
Before(p, q) == p[1] < q[1] \/ (p[1] = q[1] /\ p[2] < q[2])

\* those of two shapes
ShapePairs == {p \in StepPairs : Data(p[1]).has /\ Data(p[2]).has}

\* C12: wherever the handler goes on in an event, processing the next two pairs
\* in either order leaves the same number of live shapes of every shape and
\* size and plays the same number of fuse and of max-size sounds (and so, by
\* exchanging neighbours, does every order of the pairs of an event).  A pair
\* with the floor or a wall changes nothing, in whatever place it is processed.
C12_OrderFree ==
    (pc = "collide" /\ count < MaxBatch) =>
        /\ \A p \in StepPairs \ ShapePairs : collisionStart(State, <<p>>) = State
        /\ \A p \in ShapePairs, q \in ShapePairs :
              LET pq == collisionStart(State, <<p, q>>)
                  qp == collisionStart(State, <<q, p>>)
              IN  (Before(p, q) /\ pq # qp) => Outcome(pq) = Outcome(qp)

\* the handler has fused two bodies of a step in which a third body of the
\* same shape and size takes part: a pair of the third and a removed one is next
C12_Witness ==
    /\ pc = "collide"
    /\ count = 1
    /\ played = <<"fuse">>
    /\ \E a \in Destroyed, c \in world \cap stepBodies :
          /\ SameShapeAndSize(a, c)
          /\ collisionStart(State, <<(<<a, c>>)>>) # State

\* the bodies other than the one currentShape refers to
Others == DOMAIN bodies \ {currentShape}

\* C13: currentShape is null or one body; between callbacks a key event
\* changes no other body, and a call of update() neither changes nor removes
\* another body, and what it does to the current shape and whether it spawns
\* is the same wherever the other bodies are and however they move.
C13_OneControlled ==
    /\ currentShape = Null \/ currentShape \in DOMAIN bodies
    /\ pc = "idle" =>
          /\ \A key \in Keys : \A b \in Others : keydown(State, key).bodies[b] = bodies[b]
          /\ \A r \in Randoms :
                LET s2 == update(State, r)
                IN  /\ \A b \in Others : s2.bodies[b] = bodies[b] /\ (b \in s2.world <=> b \in world)
                    /\ \A b \in Others \cap Dynamic(State) : \A smp \in EngineSamples :
                          LET m2 == update(Integrate(State, b, smp), r)
                          IN  /\ m2.currentShape = s2.currentShape
                              /\ m2.world = s2.world
                              /\ currentShape # Null
                                    => m2.bodies[currentShape] = s2.bodies[currentShape]

\* a key has pushed the current shape while two other shapes lie in the field
C13_Witness ==
    /\ pc = "idle"
    /\ currentShape \in world
    /\ bodies[currentShape].force.x = forceMagnitude
    /\ Cardinality(Live(State) \ {currentShape}) = 2
    /\ \A b \in Live(State) \ {currentShape} : bodies[b].force.x = 0

\* every fusion of a pair hands control to the body it creates, and a current
\* shape outside the pair stays in the world, out of reach of keys and of update()
C14_PairTakesControl ==
    pc = "collide" =>
        \A p \in ShapePairs :
            Fuses(State, p[1], p[2]) =>
                LET s2 == collisionPair(State, p[1], p[2])
                    s3 == afterUpdate(ClearForces(s2, stepBodies))
                    old == currentShape
                IN  /\ s2.currentShape = nextId
                    /\ nextId \in s2.world
                    /\ s2.bodies[nextId].shapeData =
                           [has |-> TRUE, type |-> Data(p[1]).type,
                            sizeIndex |-> Data(p[1]).sizeIndex + 1]
                    /\ (old \in world /\ old \notin {p[1], p[2]})
                          => /\ old \in s2.world
                             /\ \A key \in Keys : keydown(s3, key).bodies[old] = s3.bodies[old]
                             /\ \A r \in Randoms :
                                   LET s4 == update(s3, r)
                                   IN  old \in s4.world /\ s4.bodies[old] = s3.bodies[old]

\* a physics step in which a fuse sound was played ends with currentShape the
\* body created last, which is in the world and one size above a removed body
C14_StepEnd ==
    (pc = "collide" /\ pc' = "idle" /\ Signals(State, "fuse") >= 1)
        => /\ currentShape' = nextId - 1
           /\ currentShape' \in world' \ stepBodies
           /\ \E a \in Destroyed :
                 bodies'[currentShape'].shapeData =
                     [has |-> TRUE, type |-> Data(a).type, sizeIndex |-> Data(a).sizeIndex + 1]

\* C14: a fusion makes the body it creates the current shape: right after a
\* physics step with at least one fusion below the largest size, currentShape
\* is the body of the next size created last in the step, and the shape that
\* was current before, if not of the fused pair, is still in the world while
\* no key and no call of update() touches it any more.
C14_FusionTakesControl == []C14_PairTakesControl /\ [][C14_StepEnd]_vars

\* a step has ended in which a fusion took control from a spawned shape, which
\* is still in the field
C14_Witness ==
    /\ pc = "idle"
    /\ currentShape \in world
    /\ Data(currentShape).sizeIndex >= 1
    /\ bodies[currentShape].prevPositionY = Undefined
    /\ bodies[currentShape].force = [x |-> 0, y |-> 1]
    /\ currentShape - 1 \in world
    /\ Data(currentShape - 1).sizeIndex = 0

\* C15: a call of update() that releases the current shape at rest leaves it
\* in the world with its shape data and adds the spawned body, one live shape
\* more; one that releases it off screen removes it and adds the spawned body,
\* as many live shapes as before; no other body is changed, added or removed.
C15_ReleaseFrame ==
    (pc = "idle" /\ currentShape # Null /\ Spawns(State)) =>
        \A r \in Randoms :
            LET s2 == update(State, r)
                cur == currentShape
            IN  /\ \A b \in Others : s2.bodies[b] = bodies[b]
                /\ DOMAIN s2.bodies = DOMAIN bodies \cup {nextId}
                /\ s2.bodies[cur].shapeData = Data(cur)
                /\ IF OffScreen(bodies[cur])
                   THEN /\ cur \notin s2.world
                        /\ Live(s2) = (Live(State) \ {cur}) \cup {nextId}
                        /\ Cardinality(Live(s2)) = Cardinality(Live(State))
                   ELSE /\ cur \in s2.world
                        /\ Live(s2) = Live(State) \cup {nextId}
                        /\ Cardinality(Live(s2)) = Cardinality(Live(State)) + 1

\* C16: whenever no callback is running (a call of update() or a physics step
\* has ended), currentShape refers to a body that is in the world.
C16_CurrentInWorld == pc = "idle" => currentShape \in world

\* the body is as spawnShape() made it, its sample apart: no physics step has
\* moved it or cleared the force applied at its creation
AsSpawned(body) ==
    /\ body.position.y = -Px(60)
    /\ body.velocity = [x |-> 0, y |-> 0]
    /\ body.force.y = 1

\* C17: a call of update() does not release a current shape that no physics
\* step has touched since spawnShape() created it, however many calls of
\* update() came before.
C17_NoSettleBeforeStep ==
    (pc = "idle" /\ currentShape # Null /\ AsSpawned(bodies[currentShape]))
        => \A r \in Randoms : update(State, r).currentShape = currentShape

\* the weight 2^sizeIndex of every body of the set B, summed
RECURSIVE WeightOf(_, _)
WeightOf(s, B) ==
    IF B = {} THEN 0
    ELSE LET b == CHOOSE x \in B : TRUE
         IN  2 ^ s.bodies[b].shapeData.sizeIndex + WeightOf(s, B \ {b})

Weight(s) == WeightOf(s, Live(s))

MaxSizePair(p) ==
    SameShapeAndSize(p[1], p[2]) /\ Data(p[1]).sizeIndex = Len(SIZE_LEVELS) - 1

\* C18: with the weight 2^sizeIndex for every live shape, processing a pair
\* the event can still hold never increases the total weight and leaves it unchanged unless the pair is
\* of the largest size (so no event and no physics step increases it, whatever
\* its pairs and their order); a key changes nothing, spawnShape() adds exactly
\* 1, and a call of update() adds at most the 1 of its spawn.
C18_WeightKept ==
    /\ pc = "collide" =>
          \A p \in StepPairs :
              CanCollide(p[1], p[2]) =>
                  LET s2 == collisionPair(State, p[1], p[2])
                  IN  /\ Weight(s2) <= Weight(State)
                      /\ ~MaxSizePair(p) => Weight(s2) = Weight(State)
    /\ pc = "idle" =>
          /\ \A key \in Keys : Weight(keydown(State, key)) = Weight(State)
          /\ \A r \in Randoms :
                /\ Weight(spawnShape(State, r)) = Weight(State) + 1
                /\ Weight(update(State, r)) <= Weight(State) + 1
                /\ ~Spawns(State) => Weight(update(State, r)) = Weight(State)

====
